---- MODULE Spec2Model ----
(***************************************************************************)
(* A model of dwright04/neuralNet: the NeuralNetwork estimator of          *)
(* src/NeuralNet.py.  The state is the heap of architecture dicts, the     *)
(* __dict__ of each NeuralNetwork instance and the record of the last      *)
(* method call with its arguments and outcome.                             *)
(*                                                                         *)
(* Python dicts are sequences of <<key, value>> pairs in insertion order.  *)
(* numpy matrices are sequences of rows.  Floating point numbers are       *)
(* integers, and the quotients by m of backProp are fractions <<p, q>> in  *)
(* lowest terms.  A call's outcome is a record whose field exc names the   *)
(* exception that ended the call, or is "None" when the call returned.     *)
(***************************************************************************)
EXTENDS Integers, Sequences, FiniteSets, TLC

VARIABLES dicts, nets, keyOrder, hidden, call

vars == <<dicts, nets, keyOrder, hidden, call>>

\* ------------------------------------------------------------------ bounds

\* X has at most MaxM rows and MaxN columns; labels are 0..MaxLabel.
MaxM == 3
MaxN == 2
MaxLabel == 2
\* fit is not called on an architecture dict that already has MaxKeys keys.
MaxKeys == 4
\* Flat parameter vectors have at most MaxVecLen entries.
MaxVecLen == 10
\* Instances are constructed with LAMBDA in 0..MaxLambda.
MaxLambda == 1
\* set_params is called with at most MaxKw keyword arguments.
MaxKw == 2

\* ------------------------------------------------------- program constants

DefaultHiddenUnits == 25
DefaultLAMBDA == 0
DefaultMaxiter == 1000

Instances == {1, 2}

\* The value None of _trainedParams: no parameter vector is empty.
None == << >>

\* The sequence s itself; TLC evaluates its elements once, here.
Array(s) == s \o << >>

\* ------------------------------------------------------------ Python dicts

DictKeys(d) == Array([j \in 1..Len(d) |-> d[j][1]])

DictHas(d, k) == \E j \in 1..Len(d) : d[j][1] = k

DictGet(d, k) == d[CHOOSE j \in 1..Len(d) : d[j][1] = k][2]

\* d[k] = v: an existing key keeps its place, a new key goes last.
DictSet(d, k, v) ==
    IF DictHas(d, k)
    THEN Array([j \in 1..Len(d) |-> IF d[j][1] = k THEN <<k, v>> ELSE d[j]])
    ELSE Append(d, <<k, v>>)

\* The dict as a mapping, whatever the order of its keys.
DictMap(d) == [k \in {d[j][1] : j \in 1..Len(d)} |-> DictGet(d, k)]

RECURSIVE Ascending(_)
Ascending(S) ==
    IF S = {} THEN << >>
    ELSE LET mn == CHOOSE x \in S : \A z \in S : x <= z
         IN <<mn>> \o Ascending(S \ {mn})

\* list(d.keys()): insertion order (CPython 3.6 and later), or the order of
\* the hash table, which for small non-negative int keys is ascending.
KeyList(d, order) ==
    IF order = "insertion" THEN DictKeys(d)
    ELSE Ascending({d[j][1] : j \in 1..Len(d)})

\* s[a:] of a Python list, a counted from 0.
Tail0(s, a) == SubSeq(s, a + 1, Len(s))

\* s[a:b] of a Python sequence: a slice past the end is cut, not an error.
Slice(s, a, b) == SubSeq(s, a + 1, IF b < Len(s) THEN b ELSE Len(s))

\* ------------------------------------------------------------ name lookup

\* The names bound at module level in NeuralNet.py.
ModuleGlobals == {"np", "NeuralNetwork"}

\* The value a global name is bound to: a module or a class, written by name.
ModuleNamespace == [nm \in ModuleGlobals |-> nm]

\* A bare name resolves in the function's locals or the module's globals.
NameDefined(name, locals) == name \in locals \cup ModuleGlobals

FitLocals ==
    {"self", "X", "y", "m", "n", "neuron", "dneuron",
     "costFunction", "costFunctionGradient", "args", "initialParams", "params"}

OneHotLocals == {"self", "y", "numClasses", "indicatorFunction", "i"}

\* ---------------------------------------------------------------- matrices

Rows(M) == Len(M)
Cols(M) == Len(M[1])

\* np.reshape(v, (r, c), order="F"): column-major, and a ValueError when v
\* does not hold exactly r * c elements.
ReshapeF(v, r, c) ==
    IF Len(v) # r * c THEN [exc |-> "ValueError", val |-> << >>]
    ELSE [exc |-> "None",
          val |-> Array([i \in 1..r |-> Array([j \in 1..c |-> v[(j - 1) * r + i]])])]

\* np.ravel(M, order="F"): the columns of M one after the other.
RavelF(M) ==
    Array([k \in 1..(Rows(M) * Cols(M)) |->
              M[((k - 1) % Rows(M)) + 1][((k - 1) \div Rows(M)) + 1]])

Transpose(M) ==
    Array([j \in 1..Cols(M) |-> Array([i \in 1..Rows(M) |-> M[i][j]])])

RECURSIVE SumTo(_, _)
SumTo(f, n) == IF n = 0 THEN 0 ELSE f[n] + SumTo(f, n - 1)

\* np.dot(A, B) of two matrices.
Dot(A, B) ==
    Array([i \in 1..Rows(A) |-> Array([j \in 1..Cols(B) |->
        SumTo([k \in 1..Cols(A) |-> A[i][k] * B[k][j]], Cols(A))])])

\* ------------------------------------------------------------ reshapeParams

RECURSIVE ReshapeLoop(_, _, _, _, _)
ReshapeLoop(arch, params, layers, thetas, lastIndex) ==
    IF layers = << >> THEN [exc |-> "None", val |-> thetas]
    ELSE LET layer == Head(layers) IN
         IF ~DictHas(arch, layer) \/ ~DictHas(arch, layer - 1)
         THEN [exc |-> "KeyError", val |-> << >>]
         ELSE LET cnt == DictGet(arch, layer) * (DictGet(arch, layer - 1) + 1)
                  r   == ReshapeF(Slice(params, lastIndex, lastIndex + cnt),
                                  DictGet(arch, layer),
                                  DictGet(arch, layer - 1) + 1)
              IN IF r.exc # "None" THEN r
                 ELSE ReshapeLoop(arch, params, Tail(layers),
                                  DictSet(thetas, layer, r.val), lastIndex + cnt)

\* reshapeParams(self, params) on the architecture dict arch: the dict of
\* weight matrices, keyed by layer.
reshapeParams(arch, order, params) ==
    IF ~DictHas(arch, 1) \/ ~DictHas(arch, 0)
    THEN [exc |-> "KeyError", val |-> << >>]
    ELSE LET cnt == DictGet(arch, 1) * (DictGet(arch, 0) + 1)
             r   == ReshapeF(Slice(params, 0, cnt),
                             DictGet(arch, 1), DictGet(arch, 0) + 1)
         IN IF r.exc # "None" THEN r
            ELSE ReshapeLoop(arch, params, Tail0(KeyList(arch, order), 2),
                             <<<<1, r.val>>>>, cnt)

\* --------------------------------------------------------------- initialise

\* Stand-in for one uniform draw of np.random.rand, scaled into [-r, r].
Draw(seed, i, j) == ((seed + i + 2 * j) % 3) - 1

\* randInitParams(nIn, nOut): a matrix of shape (nOut, nIn + 1).
randInitParams(nIn, nOut, seed) ==
    Array([i \in 1..nOut |-> Array([j \in 1..(nIn + 1) |-> Draw(seed, i, j)])])

RECURSIVE InitialiseLoop(_, _, _, _)
InitialiseLoop(arch, layers, initialParams, seed) ==
    IF layers = << >> THEN [exc |-> "None", val |-> initialParams]
    ELSE LET layer == Head(layers) IN
         IF ~DictHas(arch, layer) \/ ~DictHas(arch, layer + 1)
         THEN [exc |-> "KeyError", val |-> << >>]
         ELSE InitialiseLoop(arch, Tail(layers),
                  initialParams \o RavelF(randInitParams(DictGet(arch, layer),
                                                         DictGet(arch, layer + 1),
                                                         seed + layer)),
                  seed)

\* initialise(self): the first block is drawn from self.architecture, the
\* loop then reads self._architecture, an attribute __init__ never sets.
initialise(net, heap, order, seed) ==
    LET arch == heap[net.architecture] IN
    IF ~DictHas(arch, 0) \/ ~DictHas(arch, 1)
    THEN [exc |-> "KeyError", val |-> << >>]
    ELSE IF "_architecture" \notin DOMAIN net
    THEN [exc |-> "AttributeError", val |-> << >>]
    ELSE LET keys == KeyList(heap[net["_architecture"]], order)
         IN InitialiseLoop(arch, SubSeq(keys, 2, Len(keys) - 1),
                RavelF(randInitParams(DictGet(arch, 0), DictGet(arch, 1), seed)),
                seed)

\* ----------------------------------------------------------- oneHotEncoding

\* len(np.unique(y))
NumUnique(y) == Cardinality({y[j] : j \in 1..Len(y)})

\* The body of oneHotEncoding on the vector it calls targets: a (k, m) matrix
\* with a 1 at row targets[i] (counted from 0) of column i, and an IndexError
\* for a label that is not below the number of classes.
OneHotBody(targets) ==
    LET numClasses == NumUnique(targets) IN
    IF \E i \in 1..Len(targets) : targets[i] >= numClasses \/ targets[i] < -numClasses
    THEN [exc |-> "IndexError", val |-> << >>]
    ELSE [exc |-> "None",
          val |-> Transpose([i \in 1..Len(targets) |-> [c \in 1..numClasses |->
                     IF c - 1 = (targets[i] + numClasses) % numClasses
                     THEN 1 ELSE 0]])]

\* oneHotEncoding(self, y): the parameter is y, the body reads the name
\* targets, which is neither a local nor a global of the module.
oneHotEncoding(y) ==
    IF ~NameDefined("targets", OneHotLocals)
    THEN [exc |-> "NameError", val |-> << >>]
    ELSE OneHotBody(ModuleNamespace["targets"])

\* ----------------------------------------------------------------- backProp

RECURSIVE GCD(_, _)
GCD(a, b) == IF b = 0 THEN a ELSE GCD(b, a % b)

Abs(x) == IF x < 0 THEN -x ELSE x

\* The fraction p / q, q > 0, in lowest terms.
Frac(p, q) ==
    LET g == GCD(Abs(p), q) IN <<p \div g, q \div g>>

FracAdd(a, b) == Frac(a[1] * b[2] + b[1] * a[2], a[2] * b[2])

\* The derivative handed to backProp as dneuron, applied to one entry.
DNeuron(dneuron, a) == IF dneuron = "one" THEN 1 ELSE a * (1 - a)

\* deltas[layer-1] for layer = numLayers, ..., 3: the error of the layer
\* above through the transposed weights, times dneuron of the activations,
\* without the row of the bias unit.
RECURSIVE DeltaLoop(_, _, _, _, _)
DeltaLoop(layer, thetas, activs, dneuron, deltas) ==
    IF layer <= 2 THEN [exc |-> "None", val |-> deltas]
    ELSE IF ~DictHas(thetas, layer - 1) \/ ~DictHas(activs, layer - 1)
    THEN [exc |-> "KeyError", val |-> << >>]
    ELSE LET th == Transpose(DictGet(thetas, layer - 1))
             dl == DictGet(deltas, layer)
             ac == DictGet(activs, layer - 1)
         IN IF Cols(th) # Rows(dl) \/ Rows(th) # Rows(ac) \/ Cols(dl) # Cols(ac)
            THEN [exc |-> "ValueError", val |-> << >>]
            ELSE LET prod == Dot(th, dl)
                     full == Array([i \in 1..Rows(prod) |->
                                 Array([j \in 1..Cols(prod) |->
                                    prod[i][j] * DNeuron(dneuron, ac[i][j])])])
                 IN DeltaLoop(layer - 1, thetas, activs, dneuron,
                              DictSet(deltas, layer - 1, Tail(full)))

\* LayerGrad with the regularization term added to the bias column as well.
LayerGradAllColumns(delta, activ, theta, Lambda, m) ==
    LET d == Dot(delta, Transpose(activ)) IN
    Array([i \in 1..Rows(d) |-> Array([j \in 1..Cols(d) |->
        FracAdd(Frac(d[i][j], m), Frac(Lambda * theta[i][j], m))])])

\* The gradient of one layer: (1/m) delta . activs^T, and (1/m) LAMBDA theta
\* added to every column but the first.
LayerGrad(delta, activ, theta, Lambda, m) ==
    LET d == Dot(delta, Transpose(activ)) IN
    Array([i \in 1..Rows(d) |-> Array([j \in 1..Cols(d) |->
        IF j = 1 THEN Frac(d[i][j], m)
        ELSE FracAdd(Frac(d[i][j], m), Frac(Lambda * theta[i][j], m))])])

RECURSIVE GradLoop(_, _, _, _, _, _, _)
GradLoop(layers, thetas, activs, deltas, Lambda, m, grads) ==
    IF layers = << >> THEN [exc |-> "None", val |-> grads]
    ELSE LET layer == Head(layers) IN
         IF ~DictHas(deltas, layer + 1) \/ ~DictHas(activs, layer)
         THEN [exc |-> "KeyError", val |-> << >>]
         ELSE LET dl == DictGet(deltas, layer + 1)
                  ac == DictGet(activs, layer)
                  th == DictGet(thetas, layer)
              IN IF Cols(dl) # Cols(ac) \/ Rows(dl) # Rows(th) \/ Rows(ac) # Cols(th)
                 THEN [exc |-> "ValueError", val |-> << >>]
                 ELSE GradLoop(Tail(layers), thetas, activs, deltas, Lambda, m,
                               DictSet(grads, layer, LayerGrad(dl, ac, th, Lambda, m)))

\* The gradients of all layers in one vector: layer 1 first, then the other
\* layers in the order of the dict, each column-major.
RECURSIVE FlattenLoop(_, _, _)
FlattenLoop(layers, mats, flat) ==
    IF layers = << >> THEN flat
    ELSE FlattenLoop(Tail(layers), mats, flat \o RavelF(DictGet(mats, Head(layers))))

Flatten(mats) ==
    IF ~DictHas(mats, 1) THEN [exc |-> "KeyError", val |-> << >>]
    ELSE [exc |-> "None",
          val |-> FlattenLoop(Tail0(DictKeys(mats), 1), mats, RavelF(DictGet(mats, 1)))]

\* backProp(self, thetas, hypothesis, activs, targets, m, dneuron); grads is
\* the dict of the layers' gradients, gradients the vector returned.
backProp(arch, Lambda, thetas, hypothesis, activs, targets, m, dneuron) ==
    LET numLayers == Len(arch)
        fail(e) == [exc |-> e, grads |-> << >>, gradients |-> << >>]
    IN IF Rows(hypothesis) # Rows(targets) \/ Cols(hypothesis) # Cols(targets)
       THEN fail("ValueError")
       ELSE
       LET top == Array([i \in 1..Rows(hypothesis) |->
                      Array([j \in 1..Cols(hypothesis) |->
                         hypothesis[i][j] - targets[i][j]])])
           dl  == DeltaLoop(numLayers, thetas, activs, dneuron, <<<<numLayers, top>>>>)
       IN IF dl.exc # "None" THEN fail(dl.exc)
          ELSE LET gl == GradLoop(DictKeys(thetas), thetas, activs, dl.val,
                                  Lambda, m, << >>)
               IN IF gl.exc # "None" THEN fail(gl.exc)
                  ELSE LET fl == Flatten(gl.val)
                       IN [exc |-> fl.exc, grads |-> gl.val, gradients |-> fl.val]

\* ------------------------------------------------------------- the instance

\* The dict of the default argument architecture={1:25}: one object, made
\* when the class body is executed, and kept at address 0 of the heap.
DefaultArchitecture == <<<<1, DefaultHiddenUnits>>>>

\* The optimisers __init__ knows, by name, and the function each names.
scipy_optimisers ==
    ("fmin_cg" :> "optimize.fmin_cg") @@ ("fmin_bfgs" :> "optimize.fmin_bfgs")

\* __init__: the __dict__ of the new instance.  architecture is the address
\* of the dict passed in, which is not copied.
__init__(architecture, Lambda, neuron, optimiser, maxiter) ==
    ("architecture" :> architecture) @@ ("LAMBDA" :> Lambda) @@
    ("neuron" :> neuron) @@ ("maxiter" :> maxiter) @@
    ("optimiser" :> scipy_optimisers[optimiser]) @@
    ("_trainedParams" :> None)

\* --------------------------------------------------------------- set_params

\* setattr(self, parameter, value): any key of __dict__ is set, any other
\* raises AttributeError.  A dict given for architecture is a new object,
\* kept at the instance's own address slot.
setattr(net, heap, slot, parameter, value) ==
    IF parameter \in DOMAIN net
    THEN IF parameter = "architecture"
         THEN [exc |-> "None",
               net |-> [net EXCEPT !["architecture"] = slot],
               heap |-> [heap EXCEPT ![slot] = value]]
         ELSE [exc |-> "None",
               net |-> [net EXCEPT ![parameter] = value],
               heap |-> heap]
    ELSE [exc |-> "AttributeError", net |-> net, heap |-> heap]

\* set_params(self, **parameters): the items one after the other; the ones
\* before a failing item stay set.
RECURSIVE set_params(_, _, _, _)
set_params(net, heap, slot, parameters) ==
    IF parameters = << >> THEN [exc |-> "None", net |-> net, heap |-> heap]
    ELSE LET r == setattr(net, heap, slot, Head(parameters)[1], Head(parameters)[2])
         IN IF r.exc # "None" THEN r
            ELSE set_params(r.net, r.heap, slot, Tail(parameters))

\* ---------------------------------------------------------------------- fit

\* The vector the external optimiser returns: as long as x0.
Optimised(x0, seed) == [j \in 1..Len(x0) |-> x0[j] + Draw(seed, j, 0)]

\* Lines 96-104: layer 0 is the number of features, and a new last layer is
\* added under the key len(architecture) for two or more distinct labels.
ResolveArchitecture(arch, n, y) ==
    LET a0 == DictSet(arch, 0, n) IN
    IF NumUnique(y) > 2 THEN DictSet(a0, Len(a0), NumUnique(y))
    ELSE IF NumUnique(y) = 2 THEN DictSet(a0, Len(a0), 1)
    ELSE a0

\* fit(self, X, y) for X of shape <<m, n>>: the exception that ends it, the
\* last stage it completed, the architecture dict and _trainedParams after it.
fit(net, heap, order, X, y, seed) ==
    LET arch == heap[net.architecture]
        old  == net["_trainedParams"]
    IN
    \* np.squeeze drops an axis of length 1, and m, n = np.shape(X) then fails.
    IF X[1] = 1 \/ X[2] = 1
    THEN [exc |-> "ValueError", stage |-> "start", arch |-> arch, trained |-> old]
    ELSE
    LET resolved == ResolveArchitecture(arch, X[2], y)
        heap2    == [heap EXCEPT ![net.architecture] = resolved]
        \* try: y = oneHotEncoding(y)  except AttributeError: y = y
        enc == IF NameDefined("oneHotEncoding", FitLocals)
               THEN oneHotEncoding(y)
               ELSE [exc |-> "NameError", val |-> << >>]
    IN
    IF enc.exc \notin {"None", "AttributeError"}
    THEN [exc |-> enc.exc, stage |-> "resolved", arch |-> resolved, trained |-> old]
    ELSE
    LET ini == initialise(net, heap2, order, seed) IN
    IF ini.exc # "None"
    THEN [exc |-> ini.exc, stage |-> "resolved", arch |-> resolved, trained |-> old]
    ELSE IF ~NameDefined("optimiser", FitLocals)
    THEN [exc |-> "NameError", stage |-> "initialised", arch |-> resolved,
          trained |-> old]
    ELSE [exc |-> "None", stage |-> "trained", arch |-> resolved,
          trained |-> Optimised(ini.val, seed)]

\* ------------------------------------------------------------------ inputs

\* The architecture arguments instances are constructed with: the hidden
\* layers 1..h and their sizes.
HiddenConfigs == << <<<<1, 2>>>>, <<<<1, 1>>, <<2, 1>>>> >>

\* Sample vectors, matrices and random draws are generated from these seeds.
Seeds == {0, 1}

\* The label vector of length m over the k classes 0..k-1, k <= m.
Labels(m, k) == Array([j \in 1..m |-> (j - 1) % k])

Min(a, b) == IF a < b THEN a ELSE b

LabelVectors ==
    {Labels(m, k) : m \in 1..MaxM, k \in 1..(MaxLabel + 1)} \cup {<<0, 1, 2, 1>>}

\* A flat vector of distinct entries.
ParamVec(len, s) == Array([j \in 1..len |-> j - 2 * s])

SampleMat(r, c, s) ==
    Array([i \in 1..r |-> Array([j \in 1..c |-> ((s + 2 * i + 3 * j + i * j) % 5) - 2])])

\* The keyword arguments set_params is called with, and the value given for
\* each: the five options of __init__, the private attribute, an unknown name.
ParamKeys ==
    {"architecture", "LAMBDA", "neuron", "optimiser", "maxiter",
     "_trainedParams", "gamma"}

ParamValue(k) ==
    CASE k = "architecture"   -> <<<<1, 1>>>>
      [] k = "LAMBDA"         -> MaxLambda + 1
      [] k = "neuron"         -> "tanh"
      [] k = "optimiser"      -> "fmin_bfgs"
      [] k = "maxiter"        -> DefaultMaxiter + 1
      [] k = "_trainedParams" -> <<1, 2, 3>>
      [] OTHER                -> 1

\* ------------------------------------------------------------------- state

Init ==
    /\ keyOrder \in {"insertion", "hash"}
    /\ \E a \in [Instances -> 0..Len(HiddenConfigs)],
          l \in [Instances -> 0..MaxLambda] :
          /\ dicts = [d \in {0} \cup Instances |->
                        IF d = 0 THEN DefaultArchitecture
                        ELSE IF a[d] = 0 THEN << >> ELSE HiddenConfigs[a[d]]]
          /\ nets = [i \in Instances |->
                        __init__(IF a[i] = 0 THEN 0 ELSE i, l[i],
                                 "sigmoid", "fmin_cg", DefaultMaxiter)]
          /\ hidden = [i \in Instances |->
                        IF a[i] = 0 THEN DefaultArchitecture ELSE HiddenConfigs[a[i]]]
    /\ call = [op |-> "__init__", inst |-> 0, exc |-> "None"]

\* Init with the second instance constructed without arguments.
InitOne ==
    /\ Init
    /\ nets[2] = __init__(0, DefaultLAMBDA, "sigmoid", "fmin_cg", DefaultMaxiter)

\* InitOne with the first instance constructed with the default LAMBDA, on an
\* interpreter whose dicts keep insertion order.
InitParams ==
    /\ InitOne
    /\ nets[1]["LAMBDA"] = DefaultLAMBDA
    /\ keyOrder = "insertion"

\* The architecture dict of instance i.
Architecture(i) == dicts[nets[i].architecture]

\* ----------------------------------------------------------------- actions

Fit(i) ==
    /\ Len(Architecture(i)) < MaxKeys
    /\ \E m \in 1..MaxM, n \in 1..MaxN, seed \in Seeds :
       \E k \in 1..Min(m, MaxLabel + 1) :
          \E r \in {fit(nets[i], dicts, keyOrder, <<m, n>>, Labels(m, k), seed)} :
          /\ dicts' = [dicts EXCEPT ![nets[i].architecture] = r.arch]
          /\ nets' = [nets EXCEPT ![i]["_trainedParams"] = r.trained]
          /\ call' = [op |-> "fit", inst |-> i, X |-> <<m, n>>, y |-> Labels(m, k),
                      exc |-> r.exc, stage |-> r.stage]
    /\ UNCHANGED <<keyOrder, hidden>>

SetParams(i) ==
    /\ \E len \in 1..MaxKw :
       \E ks \in [1..len -> ParamKeys] :
          /\ \A p, q \in 1..len : p # q => ks[p] # ks[q]
          /\ \E parameters \in {Array([j \in 1..len |-> <<ks[j], ParamValue(ks[j])>>])} :
             \E r \in {set_params(nets[i], dicts, i, parameters)} :
                /\ nets' = [nets EXCEPT ![i] = r.net]
                /\ dicts' = r.heap
                /\ hidden' = IF r.net.architecture # nets[i].architecture \/ r.heap # dicts
                             THEN [hidden EXCEPT ![i] = ParamValue("architecture")]
                             ELSE hidden
                /\ call' = [op |-> "set_params", inst |-> i,
                            parameters |-> parameters, exc |-> r.exc]
    /\ UNCHANGED keyOrder

ReshapeParams(i) ==
    /\ \E len \in 0..MaxVecLen, s \in Seeds :
          \E r \in {reshapeParams(Architecture(i), keyOrder, ParamVec(len, s))} :
          call' = [op |-> "reshapeParams", inst |-> i, params |-> ParamVec(len, s),
                   exc |-> r.exc, thetas |-> r.val]
    /\ UNCHANGED <<dicts, nets, keyOrder, hidden>>

Initialise(i) ==
    /\ \E seed \in Seeds :
          \E r \in {initialise(nets[i], dicts, keyOrder, seed)} :
          call' = [op |-> "initialise", inst |-> i, exc |-> r.exc, ret |-> r.val]
    /\ UNCHANGED <<dicts, nets, keyOrder, hidden>>

OneHotEncoding(i) ==
    /\ \E y \in LabelVectors :
          \E r \in {oneHotEncoding(y)} :
          call' = [op |-> "oneHotEncoding", inst |-> i, y |-> y,
                   exc |-> r.exc, ret |-> r.val]
    /\ UNCHANGED <<dicts, nets, keyOrder, hidden>>

\* backProp as costFunction calls it: on the matrices reshapeParams made of a
\* parameter vector, with activations, hypothesis and targets of their shapes.
\* The record of the call.
BackPropCall(i, arch, Lambda, thetas, m, dneuron, s) ==
    LET keys   == DictKeys(thetas)
        out    == DictGet(thetas, keys[Len(keys)])
        activs == Array([j \in 1..Len(keys) |->
                     <<keys[j],
                       SampleMat(Cols(DictGet(thetas, keys[j])), m, s + keys[j])>>])
        hypothesis == SampleMat(Rows(out), m, s)
        targets    == SampleMat(Rows(out), m, s + 1)
        r == backProp(arch, Lambda, thetas, hypothesis, activs, targets, m, dneuron)
    IN [op |-> "backProp", inst |-> i, Lambda |-> Lambda, thetas |-> thetas,
        hypothesis |-> hypothesis, activs |-> activs,
        targets |-> targets, m |-> m, dneuron |-> dneuron,
        exc |-> r.exc, grads |-> r.grads, gradients |-> r.gradients]

BackProp(i) ==
    /\ \E len \in 0..MaxVecLen, s \in Seeds :
       \E th \in {reshapeParams(Architecture(i), keyOrder, ParamVec(len, s))} :
          /\ th.exc = "None"
          /\ \E m \in 1..MaxM, dneuron \in {"one", "logistic"} :
                call' = BackPropCall(i, Architecture(i), nets[i]["LAMBDA"],
                                     th.val, m, dneuron, s)
    /\ UNCHANGED <<dicts, nets, keyOrder, hidden>>

\* --------------------------------------------------------- specifications

\* Two instances and their fit calls, in any interleaving.
Next == \E i \in Instances : Fit(i)

Spec == Init /\ [][Next]_vars

\* One instance configured with set_params between its fit calls.
NextParams == Fit(1) \/ SetParams(1)

SpecParams == InitParams /\ [][NextParams]_vars

\* One instance, its fit calls and direct calls of its numerical methods.
NextCodec ==
    \/ Fit(1)
    \/ ReshapeParams(1)
    \/ Initialise(1)
    \/ OneHotEncoding(1)
    \/ BackProp(1)

SpecCodec == InitOne /\ [][NextCodec]_vars

\* ------------------------------------------------------------------ claims

\* The architecture dict has layers 0..N, N >= 2, and nothing else.
Resolved(arch) ==
    /\ Len(arch) >= 3
    /\ {arch[j][1] : j \in 1..Len(arch)} = 0..(Len(arch) - 1)

\* Instance i has a resolved architecture: layers 0..N, of which layer 0 and
\* an output layer were added by fit to the hidden layers it was given.
ResolvedFor(i) ==
    /\ Resolved(Architecture(i))
    /\ Len(Architecture(i)) >= Len(hidden[i]) + 2

\* The sum over l in 0..N-1 of architecture[l+1] * (architecture[l] + 1).
RECURSIVE ParamCountTo(_, _)
ParamCountTo(arch, l) ==
    IF l = 0 THEN 0
    ELSE DictGet(arch, l) * (DictGet(arch, l - 1) + 1) + ParamCountTo(arch, l - 1)

ParamCount(arch) == ParamCountTo(arch, Len(arch) - 1)

\* The options of __init__.
Recognized == {"architecture", "LAMBDA", "neuron", "optimiser", "maxiter"}

\* C1: on a resolved architecture, reshapeParams of a vector of the
\* architecture's parameter count returns matrices whose flattening (layer
\* by layer, column-major) is the vector itself.
C1_RoundTrip ==
    (/\ call.op = "reshapeParams"
     /\ ResolvedFor(call.inst)
     /\ Len(call.params) = ParamCount(Architecture(call.inst)))
    => /\ call.exc = "None"
       /\ Flatten(call.thetas).exc = "None"
       /\ Flatten(call.thetas).val = call.params

\* C2: on a resolved architecture, reshapeParams of a vector whose length is
\* not the architecture's parameter count fails: it returns no matrices.
C2_WrongLengthFails ==
    (/\ call.op = "reshapeParams"
     /\ ResolvedFor(call.inst)
     /\ Len(call.params) # ParamCount(Architecture(call.inst)))
    => call.exc # "None"

\* C3: after the architecture resolution of a fit on an instance constructed
\* with hidden layers 1..h, the keys are 0..h+1, layer 0 is the number of
\* features, the hidden layers are as constructed, and layer h+1 is 1 for two
\* distinct labels and k for k > 2.
C3_ResolvedArchitecture ==
    (/\ call.op = "fit"
     /\ call.stage # "start"
     /\ NumUnique(call.y) >= 2)
    => LET arch == Architecture(call.inst)
           h    == Len(hidden[call.inst])
       IN /\ {arch[j][1] : j \in 1..Len(arch)} = 0..(h + 1)
          /\ DictGet(arch, 0) = call.X[2]
          /\ \A l \in 1..h : DictGet(arch, l) = DictGet(hidden[call.inst], l)
          /\ DictGet(arch, h + 1) =
                IF NumUnique(call.y) = 2 THEN 1 ELSE NumUnique(call.y)

\* C4: the architecture after any fit of an instance is the one a freshly
\* constructed instance with the same hidden layers resolves for that call's
\* data: the number of layers does not grow with the number of fit calls.
C4_RefitRestarts ==
    (call.op = "fit" /\ call.stage # "start" /\ NumUnique(call.y) >= 2)
    => DictMap(Architecture(call.inst)) =
          DictMap(ResolveArchitecture(hidden[call.inst], call.X[2], call.y))

\* C5: set_params fails with the unknown-parameter error when a key is not an
\* option of __init__, and otherwise returns with every option set as given.
C5_SetParamsRejectsUnknown ==
    call.op = "set_params"
    => IF \E j \in 1..Len(call.parameters) : call.parameters[j][1] \notin Recognized
       THEN call.exc = "AttributeError"
       ELSE /\ call.exc = "None"
            /\ \A j \in 1..Len(call.parameters) :
                  IF call.parameters[j][1] = "architecture"
                  THEN Architecture(call.inst) = call.parameters[j][2]
                  ELSE nets[call.inst][call.parameters[j][1]] = call.parameters[j][2]

\* C6: oneHotEncoding of m labels with k distinct values 0..k-1 returns a
\* (k, m) matrix of 0s and 1s whose column i has its only 1 at row y[i].
C6_OneHotColumns ==
    (/\ call.op = "oneHotEncoding"
     /\ {call.y[j] : j \in 1..Len(call.y)} = 0..(NumUnique(call.y) - 1))
    => /\ call.exc = "None"
       /\ Len(call.ret) = NumUnique(call.y)
       /\ \A r \in 1..NumUnique(call.y) :
             call.ret[r] = [j \in 1..Len(call.y) |-> IF call.y[j] = r - 1 THEN 1 ELSE 0]

\* C7: _trainedParams changes only in a fit that ran through architecture
\* resolution, initialisation and the optimiser to the assignment of the
\* vector the optimiser returned; any other step leaves it as it was.
C7_TrainedOnlyByOptimiser ==
    [][\A i \in Instances :
          nets'[i]["_trainedParams"] # nets[i]["_trainedParams"]
          => call'.op = "fit" /\ call'.inst = i /\ call'.stage = "trained"]_vars

\* C8: on a resolved architecture, initialise returns a vector of the
\* architecture's parameter count.
C8_InitialiseLength ==
    (call.op = "initialise" /\ ResolvedFor(call.inst))
    => /\ call.exc = "None"
       /\ Len(call.ret) = ParamCount(Architecture(call.inst))

\* The gradients backProp returns for the inputs of the recorded call, with
\* the regularization parameter lam in place of the instance's.
GradsWith(lam) ==
    backProp(Architecture(call.inst), lam, call.thetas, call.hypothesis,
             call.activs, call.targets, call.m, call.dneuron).grads

\* C9: in every layer's gradient, column 0 is the same for every LAMBDA, and
\* every other entry is the entry for LAMBDA = 0 plus (LAMBDA / m) times the
\* weight.
C9_BiasNotRegularised ==
    (call.op = "backProp" /\ call.exc = "None")
    => \A p \in 1..Len(call.grads) :
          LET layer == call.grads[p][1]
              g     == call.grads[p][2]
              theta == DictGet(call.thetas, layer)
          IN \A r \in 1..Rows(g) :
                /\ \A lam \in 0..(MaxLambda + 1) :
                      DictGet(GradsWith(lam), layer)[r][1] = g[r][1]
                /\ \A c \in 2..Cols(g) :
                      g[r][c] = FracAdd(DictGet(GradsWith(0), layer)[r][c],
                                        Frac(call.Lambda * theta[r][c], call.m))

\* A backProp call that returned, with LAMBDA not 0, over two or more layers,
\* one of them with two units, and with a bias weight that is not 0.
C9_Witness ==
    /\ call.op = "backProp"
    /\ call.exc = "None"
    /\ call.Lambda # 0
    /\ Len(call.grads) >= 2
    /\ \E p \in 1..Len(call.thetas) :
          /\ Rows(call.thetas[p][2]) >= 2
          /\ \E r \in 1..Rows(call.thetas[p][2]) : call.thetas[p][2][r][1] # 0

\* C10: a fit of one instance changes neither the architecture nor the
\* attributes of any other instance.
C10_InstanceIsolation ==
    [][\A j \in Instances :
          (call'.op = "fit" /\ call'.inst # j)
          => /\ dicts'[nets'[j].architecture] = dicts[nets[j].architecture]
             /\ nets'[j] = nets[j]]_vars

====
